---- MODULE Spec2Model ----
(***************************************************************************)
(* Quantum ML dashboard backend (src/script.js): the QuantumMLDashboard    *)
(* store, its 2000 ms prediction timers, the 30 s price ticker, the        *)
(* WebSocket fan-out to wss.clients and the HTTP triggers.                 *)
(*                                                                         *)
(* Node runs every callback to completion on one thread, so each action    *)
(* below is one callback (a handler, a timer, a socket event) together     *)
(* with the microtasks it leaves behind.                                   *)
(*                                                                         *)
(* Numbers: prices are in cents (9138.90 is 913890), percentages in        *)
(* hundredths of a percent, probabilities in tenths of a percent, and a    *)
(* Math.random() draw r in [0,1) is the integer r * 16000, so that decimal *)
(* fractions (to 1/1000) and binary ones (to 1/128) are both draws.        *)
(* Instants: a history point of the loader carries the day offset -i, a    *)
(* tick point the number of the tick that produced it.                     *)
(***************************************************************************)
EXTENDS Integers, Sequences, FiniteSets, TLC

VARIABLES
    alive,            \* the node process is running
    started,          \* the main script has run to its end (line 256 done)
    isLoading,        \* QuantumMLDashboard.isLoading
    currentData,      \* QuantumMLDashboard.currentData (Null or a snapshot)
    priceChartData,   \* QuantumMLDashboard.priceChartData
    lastPrediction,   \* QuantumMLDashboard.lastPrediction (Null or a prediction)
    timers,           \* pending setTimeout(…, 2000) callbacks, oldest first
    clients,          \* wss.clients, in insertion order
    readyState,       \* readyState of every socket ever accepted
    inbox,            \* what each socket has been sent, in order
    count,            \* how often each operation ran / each event was emitted
    sendFailed,       \* the socket whose send threw in the latest callback (0: none)
    group,            \* the current run of back-to-back runPrediction calls
    snapAtConnect,    \* currentData as it was when each socket connected
    awaiting,         \* the cycles whose promise a POST /api/predict handler awaits
    response,         \* the HTTP response sent in the latest callback (Null: none)
    draw,             \* the values Math.random() returns to the next prediction
                      \* callback (Null: any of PredictionDraws)
    refs,             \* which objects the store's fields refer to, and which objects
                      \* the latest callback passed to listeners or returned
    scenario          \* which workload the run draws its inputs from

vars == <<alive, started, isLoading, currentData, priceChartData, lastPrediction,
          timers, clients, readyState, inbox, count, sendFailed, group, snapAtConnect,
          awaiting, response, draw, refs, scenario>>

storeVars == <<isLoading, currentData, priceChartData, lastPrediction>>

(***************************************************************************)
(* Bounds of the model.                                                    *)
(***************************************************************************)
MaxSubs == 2        \* sockets accepted in a run
MaxOps == 4         \* callbacks in a "service" run, after startup and besides timers
LongOps == 1        \* callbacks other than ticks in a "longrun" run
LongTicks == 32     \* ticks in a "longrun" run
DrawGrid == 16      \* the probability draws of SpecDraws are the multiples of 1/DrawGrid

(***************************************************************************)
(* Program constants.                                                      *)
(***************************************************************************)
BasePrice == 913890
InitialPriceChange == 4520
InitialPriceChangePercent == 50
DataPoints == 1261
FeatureCount == 60
HistoryDays == 30
HistoryBase == 910000
MaxChartPoints == 30
ConfidenceBase == 70
ConfidenceSpan == 30

Null == [none |-> TRUE]

Subs == 1..MaxSubs

(***************************************************************************)
(* Inputs: the values the random draws and the failing sends are taken     *)
(* from.  The "service" workload exercises every handler with a few        *)
(* sockets; the "longrun" workload lets the ticker run past the chart's    *)
(* capacity.                                                               *)
(***************************************************************************)
Scenarios == {"service", "longrun"}

\* count.ops counts every callback but a timer's; one more may run
MayRun == IF scenario = "longrun" THEN count.ops - count.ticks < LongOps ELSE count.ops < MaxOps
MayTick == IF scenario = "longrun" THEN count.ticks < LongTicks ELSE count.ops < MaxOps

\* (Math.random() - 0.5) * 10, in cents: a value in [-500, 500)
Deltas == IF scenario = "longrun" THEN {250} ELSE {-250, 250}

\* (Math.random() - 0.5) * 200 for each of the 30 days, in cents
Jitters == {[i \in 0..(HistoryDays - 1) |-> 300 * (i + 1) - 5000]}

\* the five Math.random() draws of one prediction
PredictionDraws ==
    {[direction |-> 11696, confidence |-> 0, up |-> 5328, down |-> 10672, model |-> 15984],
     [direction |-> 8000, confidence |-> 15984, up |-> 2000, down |-> 4000, model |-> 6400]}

(***************************************************************************)
(* Number formatting.                                                      *)
(***************************************************************************)
\* n / d rounded to the nearest integer, halves away from zero (d > 0)
RoundDiv(n, d) == IF n >= 0 THEN (2 * n + d) \div (2 * d) ELSE -((2 * (-n) + d) \div (2 * d))

\* (change / price * 100).toFixed(2), in hundredths of a percent
PercentToFixed2(change, price) == RoundDiv(change * 10000, price)

\* the text "NaN", which toFixed makes of 0 / 0, among the tenths of a percent
NaN == -1

\* (raw / total * 100).toFixed(1), in tenths of a percent
PercentToFixed1(raw, total) == IF total = 0 THEN NaN ELSE RoundDiv(raw * 1000, total)

(***************************************************************************)
(* QuantumMLDashboard: the data it builds.                                 *)
(***************************************************************************)
Models == [randomForest |-> [accuracy |-> 5597, precision |-> 5573, recall |-> 5597],
           hybrid |-> [accuracy |-> 5309, precision |-> 5160, recall |-> 5309],
           svm |-> [accuracy |-> 5350, precision |-> 2862, recall |-> 5350]]

RECURSIVE HistoricalLoop(_, _, _)
HistoricalLoop(i, data, jitter) ==
    IF i < 0 THEN data
    ELSE HistoricalLoop(i - 1,
                        Append(data, [timestamp |-> -i, price |-> HistoryBase + jitter[i]]),
                        jitter)

generateHistoricalData(jitter) == HistoricalLoop(HistoryDays - 1, <<>>, jitter)

\* mutant: a reload keeps the price the ticks have reached
MockDataKeepsPrice(jitter) ==
    [currentPrice |-> IF currentData = Null THEN BasePrice ELSE currentData.currentPrice,
     priceChange |-> InitialPriceChange,
     priceChangePercent |-> InitialPriceChangePercent,
     dataPoints |-> DataPoints,
     featureCount |-> FeatureCount,
     historicalPrices |-> generateHistoricalData(jitter),
     models |-> Models]

\* lines 23-35
MockData(jitter) ==
    [currentPrice |-> BasePrice,
     priceChange |-> InitialPriceChange,
     priceChangePercent |-> InitialPriceChangePercent,
     dataPoints |-> DataPoints,
     featureCount |-> FeatureCount,
     historicalPrices |-> generateHistoricalData(jitter),
     models |-> Models]

ModelNames == <<"random_forest", "hybrid", "svm">>

\* mutant: Math.round for Math.floor
ConfidenceRounded(r) == RoundDiv(r * ConfidenceSpan, 16000) + ConfidenceBase

\* line 68: Math.floor(Math.random() * 30) + 70
Confidence(r) == ((r * ConfidenceSpan) \div 16000) + ConfidenceBase

\* lines 66-80; d holds the five draws
Prediction(d, now) ==
    LET up == d.up
        down == d.down
        total == up + down
    IN [direction |-> IF d.direction > 8000 THEN "UP" ELSE "DOWN",
        confidence |-> Confidence(d.confidence),
        probabilities |-> [up |-> PercentToFixed1(up, total),
                           down |-> PercentToFixed1(down, total)],
        model |-> ModelNames[((d.model * 3) \div 16000) + 1],
        timestamp |-> now]

\* mutant: the eviction of lines 123-125 left out
PushChartPointNoShift(chart, point) == Append(chart, point)

\* mutant: pop() for shift(): the newest point is dropped on overflow
PushChartPointPop(chart, point) ==
    LET pushed == Append(chart, point)
    IN IF Len(pushed) > MaxChartPoints THEN SubSeq(pushed, 1, Len(pushed) - 1) ELSE pushed

\* lines 118-125: priceChartData.push(point); if (length > 30) shift()
PushChartPoint(chart, point) ==
    LET pushed == Append(chart, point)
    IN IF Len(pushed) > MaxChartPoints THEN Tail(pushed) ELSE pushed

(***************************************************************************)
(* The WebSocket fan-out.                                                  *)
(***************************************************************************)
Message(type, data) == [type |-> type, data |-> data]

IsOpen(s) == readyState[s] = "OPEN"

\* A send may throw.  A broadcast is determined by the position in
\* wss.clients of the first socket whose send throws (0: none does).
SendChoices == {0} \cup {p \in 1..Len(clients) : IsOpen(clients[p])}

\* wss.clients.forEach(client => { if (OPEN) client.send(…) }): the sockets
\* reached before the throwing send get the message, the others do not.
Reached(s, failAt) ==
    \E p \in 1..Len(clients) : clients[p] = s /\ IsOpen(s) /\ (failAt = 0 \/ p < failAt)

Forward(inb, type, data, failAt) ==
    [s \in Subs |-> IF Reached(s, failAt) THEN Append(inb[s], Message(type, data)) ELSE inb[s]]


Failed(failAt) == IF failAt = 0 THEN 0 ELSE clients[failAt]

NoGroup == <<>>

(***************************************************************************)
(* Object identity.  An object is named by the expression that creates it  *)
(* and by how many times that expression has run.  currentData and         *)
(* lastPrediction are only ever reassigned; priceChartData is the one      *)
(* array of the constructor (line 13), changed in place by push and shift. *)
(***************************************************************************)
Ref(site, n) == <<site, n>>

ChartRef == Ref("priceChartData", 0)

\* a field that is null refers to no object
NoRef == Ref("null", 0)

\* the callback passes no object of its own making to a listener or a caller
NoHandOut == [refs EXCEPT !.out = {}]

\* res.status(status).json(body); res.json(body) answers 200
Response(status, body) == [status |-> status, body |-> body]

(***************************************************************************)
(* Initial state: the dashboard as its constructor leaves it, the servers  *)
(* created, no socket accepted, the last line of the script not yet run.   *)
(***************************************************************************)
Init ==
    /\ scenario \in Scenarios
    /\ alive = TRUE
    /\ started = FALSE
    /\ isLoading = FALSE
    /\ currentData = Null
    /\ priceChartData = <<>>
    /\ lastPrediction = Null
    /\ timers = <<>>
    /\ clients = <<>>
    /\ readyState = [s \in Subs |-> "NONE"]
    /\ inbox = [s \in Subs |-> <<>>]
    /\ count = [ops |-> 0, loads |-> 0, ticks |-> 0, calls |-> 0, started |-> 0,
                completed |-> 0, conns |-> 0]
    /\ sendFailed = 0
    /\ group = NoGroup
    /\ snapAtConnect = [s \in Subs |-> Null]
    /\ awaiting = {}
    /\ response = Null
    /\ draw = Null
    /\ refs = [currentData |-> NoRef, lastPrediction |-> NoRef, out |-> {}]

\* the process is up and may run one more callback
Running == alive /\ started /\ MayRun

InClients(s) == \E p \in 1..Len(clients) : clients[p] = s

(***************************************************************************)
(* loadDashboardData (lines 19-47).  It has no await: the flag set on line *)
(* 20 is cleared by the finally of line 45 before the call returns.  When  *)
(* a dataLoaded listener throws, the catch emits 'error', which has no     *)
(* listener and so throws too; the finally still runs and the promise is   *)
(* rejected.                                                               *)
(***************************************************************************)
\* line 45, in the finally
FlagAfterLoad == FALSE

loadDashboardData(jitter, failAt) ==
    LET mockData == MockData(jitter)
        \* lines 23-35: the object literal; line 37 stores it, line 38 emits it,
        \* line 39 returns it
        mockRef == Ref("mockData", count.loads + 1)
    IN /\ isLoading' = FlagAfterLoad
       /\ currentData' = mockData
       /\ refs' = [refs EXCEPT !.currentData = mockRef, !.out = {mockRef}]
       /\ inbox' = Forward(inbox, "dataLoaded", mockData, failAt)
       /\ sendFailed' = Failed(failAt)
       /\ group' = NoGroup
       /\ UNCHANGED <<priceChartData, lastPrediction, timers, clients, readyState,
                      snapAtConnect, draw, scenario>>

\* line 256: the load at startup; nothing can have connected yet
Startup ==
    /\ alive /\ ~started
    /\ started' = TRUE
    /\ \E jitter \in Jitters : loadDashboardData(jitter, 0)
    /\ count' = [count EXCEPT !.loads = @ + 1]
    /\ response' = Null
    /\ UNCHANGED <<alive, awaiting>>

\* lines 224-231: GET /api/dashboard awaits the load and answers 500 if it rejects
HttpGetDashboard ==
    /\ Running
    /\ \E jitter \in Jitters, failAt \in SendChoices :
          /\ loadDashboardData(jitter, failAt)
          /\ response' = IF failAt = 0 THEN Response(200, MockData(jitter))
                         ELSE Response(500, [error |-> "Failed to load dashboard data"])
    /\ count' = [count EXCEPT !.ops = @ + 1, !.loads = @ + 1]
    /\ UNCHANGED <<alive, started, awaiting>>

\* lines 171-173: the 'getDashboardData' command drops the promise; a rejection
\* is unhandled, which ends the process or only warns, depending on the runtime
WsGetDashboardData(s) ==
    /\ Running
    /\ InClients(s) /\ IsOpen(s)
    /\ \E jitter \in Jitters, failAt \in SendChoices :
          /\ loadDashboardData(jitter, failAt)
          /\ alive' \in (IF failAt = 0 THEN {TRUE} ELSE {TRUE, FALSE})
    /\ count' = [count EXCEPT !.ops = @ + 1, !.loads = @ + 1]
    /\ response' = Null
    /\ UNCHANGED <<started, awaiting>>

(***************************************************************************)
(* runPrediction (lines 89-102) up to its await, and simulatePrediction's  *)
(* setTimeout (lines 63-65, 85).  predictionStarted has no listener.       *)
(***************************************************************************)
\* mutant: the guard of line 90 left out
RunPredictionNeverRejects == FALSE

\* line 90: if (this.isLoading) return
RunPredictionRejects == isLoading

\* mutant: line 91 left out
FlagLeftClear == FALSE

\* line 91: this.isLoading = true
FlagInCycle == TRUE

runPrediction ==
    /\ IF RunPredictionRejects
       THEN /\ count' = [count EXCEPT !.ops = @ + 1, !.calls = @ + 1]
            /\ group' = Append(group, [wasLoading |-> isLoading, started |-> FALSE])
            /\ UNCHANGED <<isLoading, timers>>
       ELSE /\ isLoading' = FlagInCycle
            /\ count' = [count EXCEPT !.ops = @ + 1, !.calls = @ + 1, !.started = @ + 1]
            /\ timers' = Append(timers, count.started + 1)
            /\ group' = Append(group, [wasLoading |-> isLoading, started |-> TRUE])
    /\ sendFailed' = 0
    /\ refs' = NoHandOut
    /\ UNCHANGED <<alive, started, currentData, priceChartData, lastPrediction, clients,
                   readyState, inbox, snapAtConnect, draw, scenario>>

\* line 235: await dashboard.runPrediction(), a promise that is settled
\* already when the call was a no-op and pending when it began a cycle
PostAwaits == ~RunPredictionRejects

\* lines 233-240: POST /api/predict; line 236 runs once the promise resolves
HttpPostPredict ==
    /\ Running
    /\ runPrediction
    /\ IF PostAwaits
       THEN /\ awaiting' = awaiting \cup {count.started + 1}
            /\ response' = Null
       ELSE /\ response' = Response(200, [message |-> "Prediction started"])
            /\ UNCHANGED awaiting

\* lines 168-170: the 'getPrediction' command
WsGetPrediction(s) ==
    /\ Running
    /\ InClients(s) /\ IsOpen(s)
    /\ runPrediction
    /\ response' = Null
    /\ UNCHANGED awaiting

(***************************************************************************)
(* The timer callback of simulatePrediction (lines 65-85) and, when it     *)
(* resolves the promise, the rest of runPrediction (lines 94, 99-101).     *)
(* Timers of equal delay fire in the order they were armed.  A throwing    *)
(* predictionComplete listener leaves the callback before resolve(): the   *)
(* exception is uncaught, which ends the process; the promise stays        *)
(* pending and the finally of runPrediction never runs.                    *)
(***************************************************************************)
\* mutant: the first prediction is kept, later ones are not stored
LastPredictionKeepsFirst(prediction) == IF lastPrediction = Null THEN prediction ELSE lastPrediction

\* line 82: this.lastPrediction = prediction
LastPredictionAfter(prediction) == prediction

\* line 100, reached only through resolve() on line 84
FlagAfterTimer(threw) == IF threw THEN isLoading ELSE FALSE

\* the draws of this callback
DrawChoices == IF draw = Null THEN PredictionDraws ELSE {draw}

PredictionTimer ==
    /\ alive /\ started
    /\ timers # <<>>
    /\ \E d \in DrawChoices, failAt \in SendChoices :
          LET prediction == Prediction(d, count.completed + 1)
              \* lines 66-75: the object literal; line 82 stores it, line 83 emits
              \* it, line 84 resolves the promise with it
              predictionRef == Ref("prediction", count.completed + 1)
          IN /\ lastPrediction' = LastPredictionAfter(prediction)
             /\ refs' = [refs EXCEPT !.lastPrediction = predictionRef, !.out = {predictionRef}]
             /\ inbox' = Forward(inbox, "predictionResult", prediction, failAt)
             /\ isLoading' = FlagAfterTimer(failAt # 0)
             /\ alive' = (failAt = 0)
             /\ sendFailed' = Failed(failAt)
             /\ awaiting' = IF failAt = 0 THEN awaiting \ {Head(timers)} ELSE awaiting
             /\ response' = IF failAt = 0 /\ Head(timers) \in awaiting
                            THEN Response(200, [message |-> "Prediction started"])
                            ELSE Null
    /\ timers' = Tail(timers)
    /\ draw' = Null
    /\ count' = [count EXCEPT !.completed = @ + 1]
    /\ group' = NoGroup
    /\ UNCHANGED <<started, currentData, priceChartData, clients, readyState,
                   snapAtConnect, scenario>>

(***************************************************************************)
(* simulatePriceUpdate (lines 104-134), called by setInterval every 30 s   *)
(* (lines 251-253).  An exception thrown by a listener is uncaught in the  *)
(* interval callback; a throw in priceUpdate also skips chartUpdate.       *)
(***************************************************************************)
PriceUpdate(data) ==
    [currentPrice |-> data.currentPrice,
     priceChange |-> data.priceChange,
     priceChangePercent |-> data.priceChangePercent]

\* mutant: chartUpdate emitted before priceUpdate
TickForwardChartFirst(data, chart, failPrice, failChart) ==
    IF failPrice # 0 THEN Forward(inbox, "chartUpdate", chart, failPrice)
    ELSE Forward(Forward(inbox, "chartUpdate", chart, 0),
                 "priceUpdate", PriceUpdate(data), failChart)

\* lines 127-133: emit('priceUpdate', ...), then emit('chartUpdate', ...)
TickForward(data, chart, failPrice, failChart) ==
    IF failPrice # 0 THEN Forward(inbox, "priceUpdate", PriceUpdate(data), failPrice)
    ELSE Forward(Forward(inbox, "priceUpdate", PriceUpdate(data), 0),
                 "chartUpdate", chart, failChart)

simulatePriceUpdate(delta, failPrice, failChart) ==
    LET newPrice == currentData.currentPrice + delta
        change == newPrice - currentData.currentPrice
        data == [currentData EXCEPT
                    !.currentPrice = newPrice,
                    !.priceChange = change,
                    !.priceChangePercent = PercentToFixed2(change, currentData.currentPrice)]
        chart == PushChartPoint(priceChartData,
                                [timestamp |-> count.ticks + 1, price |-> newPrice])
        n == count.ticks + 1
    IN /\ currentData' = data
       /\ priceChartData' = chart
       \* lines 110-115: a new object by spread; lines 127-131: a new literal;
       \* line 133: priceChartData.slice()
       /\ refs' = [refs EXCEPT !.currentData = Ref("spread", n),
                               !.out = {Ref("priceUpdate", n)}
                                       \cup (IF failPrice = 0 THEN {Ref("slice", n)} ELSE {})]
       /\ inbox' = TickForward(data, chart, failPrice, failChart)
       /\ alive' = (failPrice = 0 /\ failChart = 0)
       /\ sendFailed' = Failed(IF failPrice # 0 THEN failPrice ELSE failChart)

\* mutant: the point is pushed before the guard is tested
UnloadedTickPushesPoint ==
    /\ priceChartData' = PushChartPoint(priceChartData,
                                        [timestamp |-> count.ticks + 1, price |-> 0])
    /\ refs' = NoHandOut
    /\ UNCHANGED <<alive, currentData, inbox, sendFailed>>

\* line 105: return, taken when currentData is null
UnloadedTick ==
    /\ refs' = NoHandOut
    /\ UNCHANGED <<alive, currentData, priceChartData, inbox, sendFailed>>

Tick ==
    /\ alive /\ started
    /\ MayTick
    /\ IF currentData = Null
       THEN UnloadedTick
       ELSE \E delta \in Deltas, failPrice \in SendChoices, failChart \in SendChoices :
                /\ failPrice # 0 => failChart = 0
                /\ simulatePriceUpdate(delta, failPrice, failChart)
    /\ count' = [count EXCEPT !.ops = @ + 1, !.ticks = @ + 1]
    /\ group' = NoGroup
    /\ response' = Null
    /\ UNCHANGED <<started, isLoading, lastPrediction, timers, clients, readyState,
                   snapAtConnect, awaiting, draw, scenario>>

(***************************************************************************)
(* Sockets (lines 154-176).  ws adds a socket to wss.clients when it       *)
(* accepts it, OPEN, and removes it when the socket has closed; between    *)
(* the two a socket that is closing stays in the set.  The send to a       *)
(* socket that has just been accepted is taken to succeed; the sends of    *)
(* the forwarders may throw (SendChoices).                                 *)
(***************************************************************************)
\* mutant: the initial snapshot goes to every socket, as the forwarders do
InitialPushToAll(inb, s, data) ==
    [x \in Subs |-> IF data # Null /\ (x = s \/ (InClients(x) /\ IsOpen(x)))
                    THEN Append(inb[x], Message("initialData", data)) ELSE inb[x]]

\* lines 158-163: if (dashboard.currentData) ws.send(initialData)
InitialPush(inb, s, data) ==
    IF data # Null THEN [inb EXCEPT ![s] = Append(@, Message("initialData", data))] ELSE inb

Connect ==
    /\ Running
    /\ count.conns < MaxSubs
    /\ LET s == count.conns + 1
       IN /\ clients' = Append(clients, s)
          /\ readyState' = [readyState EXCEPT ![s] = "OPEN"]
          /\ inbox' = InitialPush(inbox, s, currentData)
          /\ snapAtConnect' = [snapAtConnect EXCEPT ![s] = currentData]
          \* lines 159-162: the text JSON.stringify makes of the snapshot
          /\ refs' = [refs EXCEPT !.out = IF currentData # Null
                                         THEN {Ref("initialData", s)} ELSE {}]
    /\ count' = [count EXCEPT !.ops = @ + 1, !.conns = @ + 1]
    /\ sendFailed' = 0
    /\ group' = NoGroup
    /\ response' = Null
    /\ UNCHANGED <<alive, started, storeVars, timers, awaiting, draw, scenario>>

Without(seq, s) == SelectSeq(seq, LAMBDA x : x # s)

\* the peer starts the closing handshake: readyState is CLOSING
BeginClose(s) ==
    /\ Running
    /\ InClients(s) /\ IsOpen(s)
    /\ readyState' = [readyState EXCEPT ![s] = "CLOSING"]
    /\ refs' = NoHandOut
    /\ count' = [count EXCEPT !.ops = @ + 1]
    /\ sendFailed' = 0
    /\ group' = NoGroup
    /\ response' = Null
    /\ UNCHANGED <<alive, started, storeVars, timers, clients, inbox, snapAtConnect,
                   awaiting, draw, scenario>>

\* the socket has closed: ws takes it out of wss.clients
Disconnect(s) ==
    /\ Running
    /\ InClients(s)
    /\ clients' = Without(clients, s)
    /\ readyState' = [readyState EXCEPT ![s] = "CLOSED"]
    /\ refs' = NoHandOut
    /\ count' = [count EXCEPT !.ops = @ + 1]
    /\ sendFailed' = 0
    /\ group' = NoGroup
    /\ response' = Null
    /\ UNCHANGED <<alive, started, storeVars, timers, inbox, snapAtConnect, awaiting, draw, scenario>>

\* lines 167-174: a text that is neither command falls through the switch
WsUnknownCommand(s) ==
    /\ Running
    /\ InClients(s) /\ IsOpen(s)
    /\ count' = [count EXCEPT !.ops = @ + 1]
    /\ sendFailed' = 0
    /\ group' = NoGroup
    /\ response' = Null
    /\ refs' = NoHandOut
    /\ UNCHANGED <<alive, started, storeVars, timers, clients, readyState, inbox,
                   snapAtConnect, awaiting, draw, scenario>>

\* lines 243-247: if (dashboard.lastPrediction) res.json(...) else 404
LastPredictionResponse ==
    IF lastPrediction # Null THEN Response(200, lastPrediction)
    ELSE Response(404, [error |-> "No prediction available"])

\* lines 242-248: GET /api/last-prediction
HttpGetLastPrediction ==
    /\ Running
    /\ response' = LastPredictionResponse
    \* the handler reads the field and res.json writes its text
    /\ refs' = NoHandOut
    /\ count' = [count EXCEPT !.ops = @ + 1]
    /\ sendFailed' = 0
    /\ group' = NoGroup
    /\ UNCHANGED <<alive, started, storeVars, timers, clients, readyState, inbox,
                   snapAtConnect, awaiting, draw, scenario>>

Next ==
    \/ Startup
    \/ HttpGetDashboard
    \/ HttpPostPredict
    \/ HttpGetLastPrediction
    \/ PredictionTimer
    \/ Tick
    \/ Connect
    \/ \E s \in Subs : WsGetDashboardData(s)
    \/ \E s \in Subs : WsGetPrediction(s)
    \/ \E s \in Subs : WsUnknownCommand(s)
    \/ \E s \in Subs : BeginClose(s)
    \/ \E s \in Subs : Disconnect(s)

Spec == Init /\ [][Next]_vars

(***************************************************************************)
(* The store before its first load.  The script loads before it serves     *)
(* (line 256), so under Spec no callback ever finds currentData null.      *)
(* SpecStore starts from the state the constructor leaves with the servers *)
(* up and the load of line 256 left out, which is how the guards of lines  *)
(* 105, 158 and 243 see an empty store.                                    *)
(***************************************************************************)
InitStore ==
    /\ scenario = "service"
    /\ alive = TRUE
    /\ started = TRUE
    /\ isLoading = FALSE
    /\ currentData = Null
    /\ priceChartData = <<>>
    /\ lastPrediction = Null
    /\ timers = <<>>
    /\ clients = <<>>
    /\ readyState = [s \in Subs |-> "NONE"]
    /\ inbox = [s \in Subs |-> <<>>]
    /\ count = [ops |-> 0, loads |-> 0, ticks |-> 0, calls |-> 0, started |-> 0,
                completed |-> 0, conns |-> 0]
    /\ sendFailed = 0
    /\ group = NoGroup
    /\ snapAtConnect = [s \in Subs |-> Null]
    /\ awaiting = {}
    /\ response = Null
    /\ draw = Null
    /\ refs = [currentData |-> NoRef, lastPrediction |-> NoRef, out |-> {}]

NextStore ==
    \/ Tick
    \/ HttpGetDashboard
    \/ HttpPostPredict
    \/ HttpGetLastPrediction
    \/ PredictionTimer
    \/ Connect
    \/ \E s \in Subs : WsGetDashboardData(s)
    \/ \E s \in Subs : WsGetPrediction(s)

SpecStore == InitStore /\ [][NextStore]_vars

(***************************************************************************)
(* The prediction as a function of its draws.  SpecDraws starts where a    *)
(* POST /api/predict after startup has left the process, a cycle pending,  *)
(* fixes the values Math.random() is going to return and lets the timer    *)
(* callback run.                                                           *)
(***************************************************************************)
ProbabilityDraws == {(n * 16000) \div DrawGrid : n \in 0..(DrawGrid - 1)}

\* values on both sides of every threshold of lines 67, 68 and 73
DirectionDraws == {0, 8000, 8001, 15999}
ConfidenceDraws == {0, 533, 534, 8000, 15466, 15467, 15999}
ModelDraws == {0, 5333, 5334, 10666, 10667, 15999}

RawDraws ==
    {[direction |-> 11696, confidence |-> 0, up |-> u, down |-> w, model |-> 0] :
        u \in ProbabilityDraws, w \in ProbabilityDraws}
    \cup {[direction |-> a, confidence |-> c, up |-> 5328, down |-> 10672, model |-> m] :
            a \in DirectionDraws, c \in ConfidenceDraws, m \in ModelDraws}

InitDraws ==
    /\ scenario = "service"
    /\ alive = TRUE
    /\ started = TRUE
    /\ isLoading = TRUE
    /\ currentData \in {MockData(jitter) : jitter \in Jitters}
    /\ priceChartData = <<>>
    /\ lastPrediction = Null
    /\ timers = <<1>>
    /\ clients = <<>>
    /\ readyState = [s \in Subs |-> "NONE"]
    /\ inbox = [s \in Subs |-> <<>>]
    /\ count = [ops |-> 1, loads |-> 1, ticks |-> 0, calls |-> 1, started |-> 1,
                completed |-> 0, conns |-> 0]
    /\ sendFailed = 0
    /\ group = <<[wasLoading |-> FALSE, started |-> TRUE]>>
    /\ snapAtConnect = [s \in Subs |-> Null]
    /\ awaiting = {1}
    /\ response = Null
    /\ draw \in RawDraws
    /\ refs = [currentData |-> Ref("mockData", 1), lastPrediction |-> NoRef, out |-> {}]

NextDraws == PredictionTimer

SpecDraws == InitDraws /\ [][NextDraws]_vars

(***************************************************************************)
(* Vocabulary of the properties.                                           *)
(***************************************************************************)
\* a prediction cycle is in flight: its timer is armed and has not fired
InFlight == timers # <<>>

\* this step is a runPrediction call / a load / a timer callback / a tick
IsCall == count'.calls # count.calls
IsLoad == count'.loads # count.loads
IsTimer == count'.completed # count.completed
IsTick == count'.ticks # count.ticks
IsConnect == count'.conns # count.conns

\* this step publishes an event that has a forwarder (lines 179-221)
Publishes == IsLoad \/ IsTimer \/ IsTick

\* the messages the forwarders make of what this step publishes
Published ==
    IF IsLoad THEN <<Message("dataLoaded", currentData')>>
    ELSE IF IsTimer THEN <<Message("predictionResult", lastPrediction')>>
    ELSE IF IsTick THEN <<Message("priceUpdate", PriceUpdate(currentData')),
                          Message("chartUpdate", priceChartData')>>
    ELSE <<>>

OpenClient(s) == InClients(s) /\ IsOpen(s)

StartedIn(g) == Cardinality({i \in 1..Len(g) : g[i].started})

(***************************************************************************)
(* C1: no two busy cycles overlap: while a prediction cycle is in flight   *)
(* no prediction cycle is started and no load runs.                        *)
(***************************************************************************)
C1_NoOverlap == [][InFlight => (count'.started = count.started /\ ~IsLoad)]_vars

(***************************************************************************)
(* C2: whenever a prediction cycle is in flight, isLoading is true.        *)
(***************************************************************************)
C2_BusyWhileInFlight == InFlight => isLoading

(***************************************************************************)
(* C3: a runPrediction call emits predictionStarted (and moves the flag    *)
(* from false to true, arming one timer) if and only if isLoading was      *)
(* false at the call; a call made while it is true emits nothing, arms no  *)
(* timer and changes no state.                                             *)
(***************************************************************************)
C3_StartedIffIdle ==
    [][IsCall =>
        IF isLoading
        THEN /\ count'.started = count.started
             /\ UNCHANGED <<storeVars, timers, inbox, clients, readyState, alive>>
        ELSE /\ count'.started = count.started + 1
             /\ isLoading'
             /\ Len(timers') = Len(timers) + 1]_vars

\* both kinds of call have happened: one began a cycle, a later one was rejected
C3_Witness == count.calls >= 2 /\ count.started = 1 /\ isLoading /\ Len(timers) = 1

GroupOk ==
    Len(group) >= 2 =>
        /\ \A i \in 2..Len(group) : ~group[i].started
        /\ group[1].started <=> ~group[1].wasLoading
        /\ group[1].started => (InFlight /\ timers[Len(timers)] = count.started)

C5_FlagClearsAfterCycle == [][(IsLoad \/ IsTimer) => ~isLoading']_vars

(***************************************************************************)
(* C6: after every operation the price history holds at most 30 entries    *)
(* (the chart the ticks maintain and the history of the snapshot).         *)
(***************************************************************************)
C6_HistoryAtMost30 ==
    /\ Len(priceChartData) <= 30
    /\ currentData # Null => Len(currentData.historicalPrices) <= 30

\* more than 30 ticks have run, so the chart has overflowed
C6_Witness == count.ticks > 30 /\ Len(priceChartData) = 30

(***************************************************************************)
(* C7: after n ticks the chart is the most recent min(n, 30) tick points,  *)
(* in the order they were generated: oldest evicted, none reordered or     *)
(* duplicated.                                                             *)
(***************************************************************************)
C7_FifoEviction ==
    LET n == count.ticks
        m == IF n < 30 THEN n ELSE 30
    IN /\ Len(priceChartData) = m
       /\ \A i \in 1..m : priceChartData[i].timestamp = n - m + i

\* the 31st tick and later ones have evicted the oldest points
C7_Witness == count.ticks > 31 /\ priceChartData[1].timestamp > 2

(***************************************************************************)
(* C8: a socket that connects while a snapshot exists is sent exactly one  *)
(* initialData, carrying the snapshot current at connect time, before any  *)
(* other message, and connecting sends nothing to the other sockets.       *)
(***************************************************************************)
C8_InitialDataFirst ==
    [][/\ \A s \in Subs : (readyState'[s] # "NONE" /\ snapAtConnect'[s] # Null) =>
              /\ inbox'[s] # <<>>
              /\ inbox'[s][1] = Message("initialData", snapAtConnect'[s])
              /\ \A i \in 2..Len(inbox'[s]) : inbox'[s][i].type # "initialData"
       /\ IsConnect =>
              /\ snapAtConnect'[count'.conns] = currentData
              /\ \A s \in Subs \ {count'.conns} : inbox'[s] = inbox[s]]_vars

\* a socket got its initialData, then broadcasts, and the snapshot has moved on
C8_Witness ==
    \E s \in Subs :
        /\ Len(inbox[s]) >= 2
        /\ inbox[s][1].type = "initialData"
        /\ inbox[s][1].data # currentData
        /\ \E x \in Subs \ {s} : readyState[x] = "OPEN" /\ inbox[x][1].data # inbox[s][1].data

(***************************************************************************)
(* C9: per-subscriber isolation: when a send fails during a broadcast,     *)
(* every other open socket still gets the message, and the failure does    *)
(* not reach the operation that published: it publishes the rest of its    *)
(* events too (a tick its chartUpdate).                                    *)
(***************************************************************************)
C9_Isolation ==
    [][(Publishes /\ sendFailed' # 0) =>
          \A s \in Subs \ {sendFailed'} :
              OpenClient(s) => inbox'[s] = inbox[s] \o Published]_vars

(***************************************************************************)
(* C10: each published event is pushed, with its type tag, to every socket *)
(* that is open at publish time and to no socket that is not open.         *)
(***************************************************************************)
C10_PushedToOpenOnly ==
    [][Publishes =>
          \A s \in Subs \ {sendFailed'} :
              inbox'[s] = IF OpenClient(s) THEN inbox[s] \o Published ELSE inbox[s]]_vars

(***************************************************************************)
(* C11: publish order is preserved per socket.  Every callback appends to  *)
(* each socket's messages a prefix of what the callback published, in      *)
(* publish order (a connect appends the new socket's initialData only), so *)
(* what a socket receives is a subsequence of the global publish sequence; *)
(* a chartUpdate is received only right after the priceUpdate of its own   *)
(* tick, and when no send throws every open socket gets the two together.  *)
(***************************************************************************)
Prefixes(seq) == {SubSeq(seq, 1, k) : k \in 0..Len(seq)}

C11_PublishOrder ==
    [][/\ \A s \in Subs :
              \/ \E p \in Prefixes(Published) : inbox'[s] = inbox[s] \o p
              \/ /\ IsConnect /\ s = count'.conns
                 /\ inbox'[s] \in {inbox[s], Append(inbox[s], Message("initialData", currentData))}
       /\ (IsTick /\ currentData # Null /\ sendFailed' = 0) =>
              \A s \in Subs : OpenClient(s) => inbox'[s] = inbox[s] \o Published
       /\ \A s \in Subs : \A i \in 1..Len(inbox'[s]) :
              inbox'[s][i].type = "chartUpdate" =>
                  /\ i > 1
                  /\ inbox'[s][i - 1].type = "priceUpdate"
                  /\ inbox'[s][i - 1].data.currentPrice
                        = inbox'[s][i].data[Len(inbox'[s][i].data)].price]_vars

\* a socket has received the two messages of one tick and then of the next
C11_Witness ==
    \E s \in Subs : \E i \in 1..Len(inbox[s]) :
        /\ i + 3 <= Len(inbox[s])
        /\ inbox[s][i].type = "priceUpdate" /\ inbox[s][i + 1].type = "chartUpdate"
        /\ inbox[s][i + 2].type = "priceUpdate" /\ inbox[s][i + 3].type = "chartUpdate"
        /\ Len(inbox[s][i + 3].data) = Len(inbox[s][i + 1].data) + 1

(***************************************************************************)
(* C12: GET /api/last-prediction answers 404 'No prediction available'     *)
(* exactly when no prediction cycle has completed, and otherwise 200 with  *)
(* the prediction of the cycle that completed last; the retained value is  *)
(* written by a completing cycle only, never by a load, a tick or anything *)
(* else.                                                                   *)
(***************************************************************************)
IsGetLastPrediction ==
    /\ count' = [count EXCEPT !.ops = @ + 1]
    /\ response' # Null

C12_LastPrediction ==
    [][/\ IsGetLastPrediction =>
              IF count.completed = 0
              THEN response' = Response(404, [error |-> "No prediction available"])
              ELSE /\ response'.status = 200
                   /\ response'.body = lastPrediction
                   /\ response'.body.timestamp = count.completed
       /\ IF IsTimer
          THEN lastPrediction' # Null /\ lastPrediction'.timestamp = count'.completed
          ELSE lastPrediction' = lastPrediction]_vars

\* the request is answered with the second prediction, which replaced the first
C12_Witness ==
    /\ response # Null
    /\ response.status = 200
    /\ response.body = lastPrediction
    /\ lastPrediction.timestamp = 2

(***************************************************************************)
(* C13: POST /api/predict is fire-and-forget: when the request begins a    *)
(* cycle, 'Prediction started' is sent before the cycle's                  *)
(* predictionComplete is emitted, so no handler is still holding its       *)
(* answer back when the timer callback of its cycle runs.                  *)
(***************************************************************************)
C13_AckBeforeComplete == [][IsTimer => Head(timers) \notin awaiting]_vars

(***************************************************************************)
(* C14: no mutable state crosses the store's boundary by reference: no     *)
(* object that a callback passes to the listeners of an event or returns   *)
(* to its caller is an object the store's currentData, lastPrediction or   *)
(* priceChartData refers to.                                               *)
(***************************************************************************)
Owned == {refs.currentData, refs.lastPrediction, ChartRef} \ {NoRef}

C14_OnlyCopiesCross == refs.out \cap Owned = {}

(***************************************************************************)
(* C15: every load, whatever ran before it, stores a snapshot whose        *)
(* currentPrice is the base price 9138.90 and whose history has exactly 30 *)
(* entries; a load that completes publishes exactly one dataLoaded         *)
(* carrying that snapshot, and GET /api/dashboard returns it.              *)
(***************************************************************************)
C15_LoadResets ==
    [][IsLoad =>
        /\ currentData'.currentPrice = 913890
        /\ Len(currentData'.historicalPrices) = 30
        /\ sendFailed' = 0 =>
              /\ \A s \in Subs : OpenClient(s) =>
                     inbox'[s] = Append(inbox[s], Message("dataLoaded", currentData'))
              /\ response' # Null => response' = Response(200, currentData')]_vars

\* a reload through GET /api/dashboard after a tick has moved the price
C15_Witness ==
    /\ count.loads >= 2
    /\ priceChartData # <<>>
    /\ priceChartData[Len(priceChartData)].price # 913890
    /\ response # Null
    /\ response.status = 200
    /\ response.body = currentData
    /\ \E s \in Subs : inbox[s] # <<>> /\ inbox[s][Len(inbox[s])] = Message("dataLoaded", currentData)

(***************************************************************************)
(* C16: for every pair of raw probability draws, the normalized values of  *)
(* the generated prediction, each rounded to one decimal place, add up to  *)
(* 100.0.                                                                  *)
(***************************************************************************)
C16_ProbabilitiesSumTo100 ==
    lastPrediction # Null =>
        lastPrediction.probabilities.up + lastPrediction.probabilities.down = 1000

(***************************************************************************)
(* C17: every generated prediction has an integer confidence with          *)
(* 70 <= confidence < 100, a direction that is UP or DOWN and a model that *)
(* is random_forest, hybrid or svm.                                        *)
(***************************************************************************)
C17_PredictionRanges ==
    lastPrediction # Null =>
        /\ lastPrediction.confidence \in 70..99
        /\ lastPrediction.direction \in {"UP", "DOWN"}
        /\ lastPrediction.model \in {"random_forest", "hybrid", "svm"}

\* the largest draws have given the largest confidence and the last model
C17_Witness ==
    /\ lastPrediction # Null
    /\ lastPrediction.confidence = 99
    /\ lastPrediction.direction = "UP"
    /\ lastPrediction.model = "svm"

(***************************************************************************)
(* C18: a tick appends its point to the history that the load seeded with  *)
(* 30 points: after a load and k >= 1 ticks the history published in       *)
(* chartUpdate, which is also the history of the snapshot, has exactly 30  *)
(* entries, the last min(k, 30) of them tick points (instants above 0) and *)
(* the ones before them seeded points.                                     *)
(***************************************************************************)
C18_TicksExtendSeededHistory ==
    [][(IsTick /\ currentData # Null) =>
          LET k == IF count'.ticks < 30 THEN count'.ticks ELSE 30
          IN /\ Len(priceChartData') = 30
             /\ currentData'.historicalPrices = priceChartData'
             /\ \A i \in 1..Len(priceChartData') :
                    priceChartData'[i].timestamp > 0 <=> i > 30 - k]_vars

(***************************************************************************)
(* C19: a tick that runs while no snapshot has been loaded is a no-op: it  *)
(* leaves currentData, the chart, lastPrediction and isLoading unchanged   *)
(* and publishes neither priceUpdate nor chartUpdate.                      *)
(***************************************************************************)
C19_UnloadedTickNoOp ==
    [][(IsTick /\ currentData = Null) =>
          /\ UNCHANGED <<currentData, priceChartData, lastPrediction, isLoading>>
          /\ UNCHANGED <<inbox, timers, alive, awaiting>>
          /\ refs'.out = {}]_vars

\* ticks have run on the empty store with a socket open, and left it empty
C19_Witness ==
    /\ count.ticks >= 2
    /\ count.loads = 0
    /\ currentData = Null
    /\ priceChartData = <<>>
    /\ \E s \in Subs : readyState[s] = "OPEN" /\ inbox[s] = <<>>

(***************************************************************************)
(* C20: whenever the chart the ticks maintain is not empty, the price of   *)
(* its last point is currentData.currentPrice, after any interleaving of   *)
(* ticks and loads.                                                        *)
(***************************************************************************)
C20_ChartTracksPrice ==
    priceChartData # <<>> =>
        priceChartData[Len(priceChartData)].price = currentData.currentPrice

====
